---- MODULE Spec2Model ----
(***************************************************************************)
(* Model of src/kite_login.py: one run of main(), which validates six      *)
(* environment values, drives a browser login (get_request_token),         *)
(* exchanges the request token (generate_access_token) and posts the       *)
(* result to a callback URL (send_to_zoho).                                *)
(*                                                                         *)
(* Every call into an external system (browser, broker, callback, file     *)
(* system, stdout) is one step; its outcome is chosen nondeterministically *)
(* and it is appended to the log `events`.  Python's exception flow        *)
(* (try/except/finally, bare raise) is modelled by the program position    *)
(* `pc` and the exception in flight `exc`.                                  *)
(***************************************************************************)
EXTENDS Integers, Sequences, FiniteSets, TLC

VARIABLES
    env,            \* os.environ restricted to the six names main() reads
    pc,             \* position in main / get_request_token / send_to_zoho
    events,         \* log of external effects, in program order
    driverOpen,     \* a browser session exists (setup_driver .. driver.quit)
    tryExc,         \* exception raised inside the try body of get_request_token
    exc,            \* exception in flight / raised out of main ("none" if none)
    current_url,    \* driver.current_url as read at line 76
    pending,        \* "return" while a return value waits for the finally block
    request_token,  \* value returned by get_request_token
    access_token,   \* value returned by generate_access_token
    success,        \* value returned by send_to_zoho
    stage           \* the stage main() has entered: config, login, exchange, callback, finished

vars == <<env, pc, events, driverOpen, tryExc, exc, current_url, pending,
          request_token, access_token, success, stage>>

----------------------------------------------------------------------------
\* Bound of the model: a redirect URL is built from at most MaxChunks chunks.
MaxChunks == 5

----------------------------------------------------------------------------
\* Strings that are inspected character by character are tuples of characters.

\* "request_token=" (lines 73, 80, 81)
TokenMarker == <<"r","e","q","u","e","s","t","_","t","o","k","e","n","=">>

\* "status=success" (line 73)
SuccessMarker == <<"s","t","a","t","u","s","=","s","u","c","c","e","s","s">>

\* "&" (line 81)
Delimiter == <<"&">>

\* Pieces a redirect URL is assembled from: a token or parameter character,
\* the delimiter, and the two markers the code looks for.
Chunks == { <<"a">>, Delimiter, TokenMarker, SuccessMarker }

RECURSIVE Flatten(_)
Flatten(cs) == IF cs = <<>> THEN <<>> ELSE Head(cs) \o Flatten(Tail(cs))

\* The URLs the browser may report.
URLs == { Flatten(cs) : cs \in UNION { [1..n -> Chunks] : n \in 0..MaxChunks } }

\* Python: sub in s
Contains(s, sub) ==
    \E i \in 0..(Len(s) - Len(sub)) : SubSeq(s, i + 1, i + Len(sub)) = sub

\* Python: s.find(sub) as a 0-based offset, Len(s) + 1 when absent
Find(s, sub) ==
    IF Contains(s, sub)
    THEN CHOOSE i \in 0..(Len(s) - Len(sub)) :
            /\ SubSeq(s, i + 1, i + Len(sub)) = sub
            /\ \A j \in 0..(i - 1) : SubSeq(s, j + 1, j + Len(sub)) # sub
    ELSE Len(s) + 1

\* Python: s.split(sep) for a non-empty sep: left to right, non-overlapping.
RECURSIVE Split(_, _)
Split(s, sep) ==
    IF ~Contains(s, sep)
    THEN << s >>
    ELSE LET i == Find(s, sep)
         IN  << SubSeq(s, 1, i) >> \o Split(SubSeq(s, i + Len(sep) + 1, Len(s)), sep)

\* line 73: the condition the redirect wait polls for
WaitCond(url) == Contains(url, TokenMarker) \/ Contains(url, SuccessMarker)

\* line 81, with the second piece taken at every marker but the first dropped
ExtractLastMarker(url) ==
    LET parts == Split(url, TokenMarker)
    IN  Split(parts[Len(parts)], Delimiter)[1]

\* line 81: current_url.split("request_token=")[1].split("&")[0]
ExtractToken(url) == Split(Split(url, TokenMarker)[2], Delimiter)[1]

----------------------------------------------------------------------------
\* Environment

EnvVars == { "KITE_USER_ID", "KITE_PASSWORD", "KITE_API_KEY",
             "KITE_API_SECRET", "KITE_TOTP", "CALLBACK_URL" }

\* os.environ.get(name) of a name that is not set
PyNone == "<None>"

\* What os.environ.get can return: None, the empty string, a non-empty string.
EnvValues == { PyNone, "", "v" }

\* Python truthiness of str | None
Truthy(v) == v # PyNone /\ v # ""

\* line 151, with the callback URL left out of the list
AllPresentButCallback(e) == \A n \in EnvVars \ {"CALLBACK_URL"} : Truthy(e[n])

\* line 151: all([user_id, password, api_key, api_secret, totp_code, callback_url])
AllPresent(e) == \A n \in EnvVars : Truthy(e[n])

----------------------------------------------------------------------------
\* The log of external effects

\* op: the call; arg: what it is applied to; data: the program values passed;
\* res: its outcome
Ev(op, arg, data, res) == [op |-> op, arg |-> arg, data |-> data, res |-> res]

Emit(es) == events' = events \o es

\* Indices of the log entries of a call
Idx(op) == { i \in 1..Len(events) : events[i].op = op }
IdxArg(op, arg) == { i \in Idx(op) : events[i].arg = arg }

----------------------------------------------------------------------------
\* State after process start, before main() runs

Init ==
    /\ env \in [EnvVars -> EnvValues]
    /\ pc = "main"
    /\ events = <<>>
    /\ driverOpen = FALSE
    /\ tryExc = "none"
    /\ exc = "none"
    /\ current_url = <<>>
    /\ pending = "none"
    /\ request_token = <<>>
    /\ access_token = PyNone
    /\ success = PyNone
    /\ stage = "config"

----------------------------------------------------------------------------
\* main(), lines 140-156: read the environment, validate, announce

\* lines 154-156
StartPrints ==
    << Ev("print", "Starting Kite login automation...", {}, "ok"),
       Ev("print", "User ID:", {"user_id"}, "ok"),
       Ev("print", "API Key:", {"api_key"}, "ok") >>

\* lines 143-156 with the password echoed like the user id
MainValidatePrintPassword ==
    /\ pc = "main"
    /\ IF AllPresent(env)
       THEN /\ Emit(StartPrints \o << Ev("print", "Password:", {"password"}, "ok") >>)
            /\ pc' = "setup_driver"
            /\ stage' = "login"
            /\ exc' = exc
       ELSE /\ exc' = "ValueError"
            /\ pc' = "done"
            /\ UNCHANGED <<events, stage>>
    /\ UNCHANGED <<env, driverOpen, tryExc, current_url, pending,
                   request_token, access_token, success>>

\* lines 143-156
MainValidate ==
    /\ pc = "main"
    /\ IF AllPresent(env)
       THEN /\ Emit(StartPrints)
            /\ pc' = "setup_driver"
            /\ stage' = "login"
            /\ exc' = exc
       ELSE /\ exc' = "ValueError"
            /\ pc' = "done"
            /\ UNCHANGED <<events, stage>>
    /\ UNCHANGED <<env, driverOpen, tryExc, current_url, pending,
                   request_token, access_token, success>>

----------------------------------------------------------------------------
\* get_request_token(), lines 26-94

\* An exception raised inside the try body (lines 31-85) enters the handler
\* at line 87.
RaiseInTry(e) ==
    /\ tryExc' = e
    /\ exc' = e
    /\ pc' = "except"

\* line 28 moved inside the try statement: a failed launch enters the handler
SetupDriverInsideTry ==
    /\ pc = "setup_driver"
    /\ \E res \in {"ok", "raise"} :
        /\ Emit(<< Ev("launch", "chrome", {}, res) >>)
        /\ IF res = "ok"
           THEN /\ driverOpen' = TRUE
                /\ pc' = "navigate"
                /\ UNCHANGED <<tryExc, exc>>
           ELSE /\ driverOpen' = FALSE
                /\ RaiseInTry("WebDriverException")
    /\ UNCHANGED <<env, current_url, pending, request_token,
                   access_token, success, stage>>

\* line 28 (setup_driver, lines 13-24): outside the try statement
SetupDriver ==
    /\ pc = "setup_driver"
    /\ \E res \in {"ok", "raise"} :
        /\ Emit(<< Ev("launch", "chrome", {}, res) >>)
        /\ IF res = "ok"
           THEN /\ driverOpen' = TRUE
                /\ pc' = "navigate"
                /\ exc' = exc
           ELSE /\ driverOpen' = FALSE
                /\ exc' = "WebDriverException"
                /\ pc' = "done"
    /\ UNCHANGED <<env, tryExc, current_url, pending, request_token,
                   access_token, success, stage>>

\* lines 32-34
Navigate ==
    /\ pc = "navigate"
    /\ \E res \in {"ok", "raise"} :
        /\ Emit(<< Ev("print", "Navigating to:", {"api_key"}, "ok"),
                   Ev("get", "login_url", {"api_key"}, res) >>)
        /\ IF res = "ok"
           THEN pc' = "wait_userid" /\ UNCHANGED <<tryExc, exc>>
           ELSE RaiseInTry("WebDriverException")
    /\ UNCHANGED <<env, driverOpen, current_url, pending, request_token,
                   access_token, success, stage>>

\* lines 37-41
EnterUserId ==
    /\ pc = "wait_userid"
    /\ \/ /\ Emit(<< Ev("wait", "userid", {}, "ok"),
                     Ev("send_keys", "userid", {"user_id"}, "ok"),
                     Ev("print", "User ID entered", {}, "ok") >>)
          /\ pc' = "password"
          /\ UNCHANGED <<tryExc, exc>>
       \/ /\ Emit(<< Ev("wait", "userid", {}, "timeout") >>)
          /\ RaiseInTry("TimeoutException")
    /\ UNCHANGED <<env, driverOpen, current_url, pending, request_token,
                   access_token, success, stage>>

\* lines 44-46
EnterPassword ==
    /\ pc = "password"
    /\ \/ /\ Emit(<< Ev("find", "password", {}, "ok"),
                     Ev("send_keys", "password", {"password"}, "ok"),
                     Ev("print", "Password entered", {}, "ok") >>)
          /\ pc' = "login_click"
          /\ UNCHANGED <<tryExc, exc>>
       \/ /\ Emit(<< Ev("find", "password", {}, "raise") >>)
          /\ RaiseInTry("NoSuchElementException")
    /\ UNCHANGED <<env, driverOpen, current_url, pending, request_token,
                   access_token, success, stage>>

\* lines 49-51
ClickLogin ==
    /\ pc = "login_click"
    /\ \/ /\ Emit(<< Ev("click", "login", {}, "ok"),
                     Ev("print", "Login button clicked", {}, "ok") >>)
          /\ pc' = "totp_wait"
          /\ UNCHANGED <<tryExc, exc>>
       \/ /\ Emit(<< Ev("click", "login", {}, "raise") >>)
          /\ RaiseInTry("NoSuchElementException")
    /\ UNCHANGED <<env, driverOpen, current_url, pending, request_token,
                   access_token, success, stage>>

\* line 69: the bare except of the inner try statement swallows the exception
TotpSkipped == Ev("print", "TOTP not required or already on redirect page", {}, "ok")

\* lines 54-60 without the inner try statement: the timeout is a login failure
TotpWaitRequired ==
    /\ pc = "totp_wait"
    /\ \/ /\ Emit(<< Ev("wait", "totp", {}, "ok") >>)
          /\ pc' = "totp_enter"
          /\ UNCHANGED <<tryExc, exc>>
       \/ /\ Emit(<< Ev("wait", "totp", {}, "timeout") >>)
          /\ RaiseInTry("TimeoutException")
    /\ UNCHANGED <<env, driverOpen, current_url, pending, request_token,
                   access_token, success, stage>>

\* lines 54-60, 68-69
TotpWait ==
    /\ pc = "totp_wait"
    /\ \/ /\ Emit(<< Ev("wait", "totp", {}, "ok") >>)
          /\ pc' = "totp_enter"
       \/ /\ Emit(<< Ev("wait", "totp", {}, "timeout"), TotpSkipped >>)
          /\ pc' = "redirect_wait"
    /\ UNCHANGED <<env, driverOpen, tryExc, exc, current_url, pending,
                   request_token, access_token, success, stage>>

\* lines 61-62, 68-69
TotpEnter ==
    /\ pc = "totp_enter"
    /\ \/ /\ Emit(<< Ev("send_keys", "totp", {"totp_code"}, "ok"),
                     Ev("print", "TOTP entered", {}, "ok") >>)
          /\ pc' = "totp_submit"
       \/ /\ Emit(<< Ev("send_keys", "totp", {"totp_code"}, "raise"), TotpSkipped >>)
          /\ pc' = "redirect_wait"
    /\ UNCHANGED <<env, driverOpen, tryExc, exc, current_url, pending,
                   request_token, access_token, success, stage>>

\* lines 65-69
TotpSubmit ==
    /\ pc = "totp_submit"
    /\ \/ Emit(<< Ev("click", "totp", {}, "ok"),
                  Ev("print", "TOTP submitted", {}, "ok") >>)
       \/ Emit(<< Ev("click", "totp", {}, "raise"), TotpSkipped >>)
    /\ pc' = "redirect_wait"
    /\ UNCHANGED <<env, driverOpen, tryExc, exc, current_url, pending,
                   request_token, access_token, success, stage>>

\* lines 72-74: the wait ends when a poll sees a URL satisfying WaitCond, or
\* with TimeoutException
RedirectWait ==
    /\ pc = "redirect_wait"
    /\ \/ /\ \E u \in URLs : WaitCond(u)
          /\ Emit(<< Ev("wait_url", "redirect", {}, "ok") >>)
          /\ pc' = "read_url"
          /\ UNCHANGED <<tryExc, exc>>
       \/ /\ Emit(<< Ev("wait_url", "redirect", {}, "timeout") >>)
          /\ RaiseInTry("TimeoutException")
    /\ UNCHANGED <<env, driverOpen, current_url, pending, request_token,
                   access_token, success, stage>>

\* lines 76-77: a second read of driver.current_url, after the wait returned
ReadUrl ==
    /\ pc = "read_url"
    /\ \E u \in URLs : current_url' = u
    /\ Emit(<< Ev("print", "Redirected to:", {"current_url"}, "ok") >>)
    /\ pc' = "extract"
    /\ UNCHANGED <<env, driverOpen, tryExc, exc, pending, request_token,
                   access_token, success, stage>>

\* lines 80-85
Extract ==
    /\ pc = "extract"
    /\ IF Contains(current_url, TokenMarker)
       THEN /\ request_token' = ExtractToken(current_url)
            /\ Emit(<< Ev("print", "Request token extracted:", {"request_token"}, "ok") >>)
            /\ pending' = "return"
            /\ pc' = "finally"
            /\ UNCHANGED <<tryExc, exc>>
       ELSE /\ RaiseInTry("TokenNotFound")
            /\ UNCHANGED <<events, pending, request_token>>
    /\ UNCHANGED <<env, driverOpen, current_url, access_token, success, stage>>

\* lines 87-89: os.makedirs; an OSError replaces the exception being handled
HandlerMakedirs ==
    /\ pc = "except"
    /\ \E res \in {"ok", "raise"} :
        /\ Emit(<< Ev("makedirs", "screenshots", {}, res) >>)
        /\ IF res = "ok"
           THEN pc' = "screenshot" /\ exc' = exc
           ELSE pc' = "finally" /\ exc' = "OSError"
    /\ UNCHANGED <<env, driverOpen, tryExc, current_url, pending,
                   request_token, access_token, success, stage>>

SessionState == IF driverOpen THEN "session_open" ELSE "session_closed"

\* lines 90-92 with the handler leaving get_request_token directly when the
\* screenshot raises, the finally block skipped
HandlerScreenshotNoFinally ==
    /\ pc = "screenshot"
    /\ \E res \in {"written", "not_written", "raise"} :
        IF res = "raise"
        THEN /\ Emit(<< Ev("screenshot", SessionState, {"page_image"}, res) >>)
             /\ exc' = "WebDriverException"
             /\ pc' = "done"
        ELSE /\ Emit(<< Ev("screenshot", SessionState, {"page_image"}, res),
                        Ev("print", "Error:", {"exc_message"}, "ok") >>)
             /\ exc' = tryExc
             /\ pc' = "finally"
    /\ UNCHANGED <<env, driverOpen, tryExc, current_url, pending,
                   request_token, access_token, success, stage>>

\* lines 90-92: save_screenshot writes the image, or returns False on an
\* IOError, or raises; then print and the bare raise of the handled exception
HandlerScreenshot ==
    /\ pc = "screenshot"
    /\ \E res \in {"written", "not_written", "raise"} :
        IF res = "raise"
        THEN /\ Emit(<< Ev("screenshot", SessionState, {"page_image"}, res) >>)
             /\ exc' = "WebDriverException"
        ELSE /\ Emit(<< Ev("screenshot", SessionState, {"page_image"}, res),
                        Ev("print", "Error:", {"exc_message"}, "ok") >>)
             /\ exc' = tryExc
    /\ pc' = "finally"
    /\ UNCHANGED <<env, driverOpen, tryExc, current_url, pending,
                   request_token, access_token, success, stage>>

\* lines 93-94, then line 159 -> 162 of main: driver.quit() runs on every way
\* out of the try statement; an exception of quit itself replaces the pending
\* return or exception
Finally ==
    /\ pc = "finally"
    /\ driverOpen' = FALSE
    /\ \E res \in {"ok", "raise"} :
        /\ Emit(<< Ev("quit", "chrome", {}, res) >>)
        /\ IF res = "raise"
           THEN /\ exc' = "WebDriverException"
                /\ pending' = "none"
                /\ pc' = "done"
                /\ stage' = stage
           ELSE /\ exc' = exc
                /\ pending' = "none"
                /\ IF pending = "return"
                   THEN pc' = "exchange" /\ stage' = "exchange"
                   ELSE pc' = "done" /\ stage' = stage
    /\ UNCHANGED <<env, tryExc, current_url, request_token, access_token, success>>

----------------------------------------------------------------------------
\* generate_access_token(), lines 96-112, then line 162 -> 165 of main

\* lines 98-112 with the failure of the exchange swallowed and main going on
ExchangeContinues ==
    /\ pc = "exchange"
    /\ \E res \in {"ok", "raise"} :
        /\ Emit(<< Ev("print", "Checksum generated", {}, "ok"),
                   Ev("exchange", "generate_session",
                      {"api_key", "request_token", "api_secret"}, res),
                   Ev("print", "Access token generated:", {"access_token"}, "ok") >>)
        /\ access_token' = IF res = "ok" THEN "abc123" ELSE PyNone
        /\ pc' = "post_success"
        /\ stage' = "callback"
        /\ exc' = exc
    /\ UNCHANGED <<env, driverOpen, tryExc, current_url, pending,
                   request_token, success>>

\* lines 98-112: KiteConnect(api_key), the checksum (computed, printed as
\* a fixed message, passed nowhere), generate_session(request_token,
\* api_secret); any exception is printed and re-raised
Exchange ==
    /\ pc = "exchange"
    /\ \E res \in {"ok", "raise"} :
        IF res = "ok"
        THEN /\ Emit(<< Ev("print", "Checksum generated", {}, "ok"),
                        Ev("exchange", "generate_session",
                           {"api_key", "request_token", "api_secret"}, res),
                        Ev("print", "Access token generated:", {"access_token"}, "ok") >>)
             /\ access_token' = "abc123"
             /\ pc' = "post_success"
             /\ stage' = "callback"
             /\ exc' = exc
        ELSE /\ Emit(<< Ev("print", "Checksum generated", {}, "ok"),
                        Ev("exchange", "generate_session",
                           {"api_key", "request_token", "api_secret"}, res),
                        Ev("print", "Error generating access token:", {"exc_message"}, "ok") >>)
             /\ exc' = "SessionExchangeError"
             /\ pc' = "done"
             /\ UNCHANGED <<access_token, stage>>
    /\ UNCHANGED <<env, driverOpen, tryExc, current_url, pending,
                   request_token, success>>

----------------------------------------------------------------------------
\* send_to_zoho(), lines 114-138

\* What requests.post can do: answer with a status code, or raise
PostResults == {"200", "201", "500", "raise"}

\* lines 117-121
SuccessPayload == {"access_token", "api_key"}

\* lines 131-134
ErrorPayload == {"exc_message"}

\* lines 124-125
ResponsePrints ==
    << Ev("print", "Response sent to Zoho. Status:", {"status_code"}, "ok"),
       Ev("print", "Response:", {"response_text"}, "ok") >>

\* lines 116-128 with a non-200 answer reported like a transport failure
PostSuccessRaiseForStatus ==
    /\ pc = "post_success"
    /\ \E res \in PostResults :
        IF res = "200"
        THEN /\ Emit(<< Ev("post", "success", SuccessPayload, res) >> \o ResponsePrints)
             /\ success' = TRUE
             /\ pc' = "main_check"
             /\ exc' = exc
        ELSE /\ Emit(<< Ev("post", "success", SuccessPayload, res),
                        Ev("print", "Error sending to Zoho:", {"exc_message"}, "ok") >>)
             /\ exc' = "TransportError"
             /\ pc' = "post_fallback"
             /\ success' = success
    /\ UNCHANGED <<env, driverOpen, tryExc, current_url, pending,
                   request_token, access_token, stage>>

\* lines 116-128: the success POST; True exactly on status 200
PostSuccess ==
    /\ pc = "post_success"
    /\ \E res \in PostResults :
        IF res = "raise"
        THEN /\ Emit(<< Ev("post", "success", SuccessPayload, res),
                        Ev("print", "Error sending to Zoho:", {"exc_message"}, "ok") >>)
             /\ exc' = "TransportError"
             /\ pc' = "post_fallback"
             /\ success' = success
        ELSE /\ Emit(<< Ev("post", "success", SuccessPayload, res) >> \o ResponsePrints)
             /\ success' = (res = "200")
             /\ pc' = "main_check"
             /\ exc' = exc
    /\ UNCHANGED <<env, driverOpen, tryExc, current_url, pending,
                   request_token, access_token, stage>>

\* lines 129-138 with the inner except missing: a failure of the fallback
\* POST replaces the error being handled
PostFallbackNotSwallowed ==
    /\ pc = "post_fallback"
    /\ \E res \in PostResults :
        /\ Emit(<< Ev("post", "error", ErrorPayload, res) >>)
        /\ exc' = IF res = "raise" THEN "FallbackError" ELSE exc
    /\ pc' = "done"
    /\ UNCHANGED <<env, driverOpen, tryExc, current_url, pending,
                   request_token, access_token, success, stage>>

\* lines 129-138: one fallback POST of the error payload, its own failure
\* swallowed by the bare except, then the bare raise of the handled exception
PostFallback ==
    /\ pc = "post_fallback"
    /\ \E res \in PostResults :
        Emit(<< Ev("post", "error", ErrorPayload, res) >>)
    /\ pc' = "done"
    /\ UNCHANGED <<env, driverOpen, tryExc, exc, current_url, pending,
                   request_token, access_token, success, stage>>

----------------------------------------------------------------------------
\* main(), lines 167-170

\* lines 167-170 with the return value of send_to_zoho ignored
MainCheckIgnoresResult ==
    /\ pc = "main_check"
    /\ Emit(<< Ev("print", "Successfully completed Kite login automation", {}, "ok") >>)
    /\ stage' = "finished"
    /\ pc' = "done"
    /\ UNCHANGED <<env, driverOpen, tryExc, exc, current_url, pending,
                   request_token, access_token, success>>

\* lines 167-170
MainCheck ==
    /\ pc = "main_check"
    /\ IF success = TRUE
       THEN /\ Emit(<< Ev("print", "Successfully completed Kite login automation", {}, "ok") >>)
            /\ stage' = "finished"
            /\ exc' = exc
       ELSE /\ exc' = "Exception"
            /\ UNCHANGED <<events, stage>>
    /\ pc' = "done"
    /\ UNCHANGED <<env, driverOpen, tryExc, current_url, pending,
                   request_token, access_token, success>>

----------------------------------------------------------------------------
\* Next-state relation

Next ==
    \/ MainValidate
    \/ SetupDriver
    \/ Navigate
    \/ EnterUserId
    \/ EnterPassword
    \/ ClickLogin
    \/ TotpWait
    \/ TotpEnter
    \/ TotpSubmit
    \/ RedirectWait
    \/ ReadUrl
    \/ Extract
    \/ HandlerMakedirs
    \/ HandlerScreenshot
    \/ Finally
    \/ Exchange
    \/ PostSuccess
    \/ PostFallback
    \/ MainCheck

Spec == Init /\ [][Next]_vars

----------------------------------------------------------------------------
\* Vocabulary of the properties

Credentials == {"user_id", "password", "totp_code"}

Done == pc = "done"

\* Some required value is absent (None) or empty
ConfigMissing == \E n \in EnvVars : env[n] \in {PyNone, ""}

\* Positions inside get_request_token
InLogin == pc \in {"setup_driver", "navigate", "wait_userid", "password",
                   "login_click", "totp_wait", "totp_enter", "totp_submit",
                   "redirect_wait", "read_url", "extract", "except",
                   "screenshot", "finally"}

SuccessPosts == IdxArg("post", "success")
ErrorPosts == IdxArg("post", "error")

\* get_request_token has computed its return value
TokenExtracted ==
    \E i \in Idx("print") : events[i].arg = "Request token extracted:"

\* 0-based offsets at which the token marker occurs in a URL
MarkerOffsets(url) ==
    { i \in 0..(Len(url) - Len(TokenMarker)) :
        SubSeq(url, i + 1, i + Len(TokenMarker)) = TokenMarker }

\* The text after the marker at offset i, up to the next & or the end
TokenAt(url, i) ==
    LET start == i + Len(TokenMarker) + 1
        amps  == { k \in start..Len(url) : url[k] = "&" }
        stop  == IF amps = {} THEN Len(url) + 1
                 ELSE CHOOSE k \in amps : \A m \in amps : k <= m
    IN  SubSeq(url, start, stop - 1)

----------------------------------------------------------------------------
\* C1: when one of the six required values is absent or empty, main raises
\* the validation error and no browser launch, navigation, session exchange
\* or callback POST happens in that run.
C1_MissingConfigFailsFirst ==
    ConfigMissing =>
        /\ pc \in {"main", "done"}
        /\ Done => exc = "ValueError"
        /\ ~driverOpen
        /\ Idx("launch") = {} /\ Idx("get") = {}
        /\ Idx("exchange") = {} /\ Idx("post") = {}

\* C1 witness: only the callback URL is empty, and main has failed
C1_Witness ==
    /\ Done /\ exc = "ValueError"
    /\ env["CALLBACK_URL"] = ""
    /\ \A n \in EnvVars \ {"CALLBACK_URL"} : env[n] = "v"

\* C2: once get_request_token has been left, on whatever path, every browser
\* session it opened has had driver.quit called on it and none is open.
C2_SessionReleasedOnExit ==
    ~InLogin =>
        /\ ~driverOpen
        /\ \A l \in Idx("launch") :
              events[l].res = "ok" => \E q \in Idx("quit") : q > l

\* C2 witness: the screenshot raised inside the error handler and the run ended
C2_Witness ==
    /\ Done
    /\ \E s \in Idx("screenshot") : events[s].res = "raise"
    /\ Idx("quit") # {}

\* C3: after a transport error of the success POST, exactly one fallback POST
\* with the error payload follows, and send_to_zoho raises the original
\* transport error whether the fallback POST was answered or failed.
C3_OneFallbackThenOriginalError ==
    /\ Cardinality(ErrorPosts) <= 1
    /\ \A e \in ErrorPosts :
          /\ events[e].data = {"exc_message"}
          /\ \E p \in SuccessPosts : p < e /\ events[p].res = "raise"
    /\ (\E p \in SuccessPosts : events[p].res = "raise") =>
          /\ pc \in {"post_fallback", "done"}
          /\ exc = "TransportError"
          /\ pc = "post_fallback" => ErrorPosts = {}
          /\ Done => Cardinality(ErrorPosts) = 1

\* C3 witness: the fallback POST itself failed and the run ended
C3_Witness ==
    /\ Done
    /\ exc = "TransportError"
    /\ \E e \in ErrorPosts : events[e].res = "raise"

\* C4: a status other than 200 makes send_to_zoho return False without
\* raising and without a fallback POST, and main then raises.
C4_Non200FailsRun ==
    \A p \in SuccessPosts :
        events[p].res \notin {"200", "raise"} =>
            /\ success = FALSE
            /\ ErrorPosts = {}
            /\ pc \in {"main_check", "done"}
            /\ pc = "main_check" => exc = "none"
            /\ Done => exc = "Exception" /\ stage # "finished"

\* C4 witness: the callback answered 201 and the run ended with main's exception
C4_Witness ==
    /\ Done
    /\ exc = "Exception"
    /\ \E p \in SuccessPosts : events[p].res = "201"

\* C5: login, exchange and callback happen in this order, each at most once;
\* the exchange only after login returned a token, the success POST only
\* after the exchange returned, and nothing after a failed stage.
C5_StagesInOrderOnce ==
    /\ Cardinality(Idx("launch")) <= 1
    /\ Cardinality(Idx("exchange")) <= 1
    /\ Cardinality(SuccessPosts) <= 1
    /\ \A x \in Idx("exchange") :
          /\ TokenExtracted
          /\ \E l \in Idx("launch") : l < x /\ events[l].res = "ok"
          /\ \E q \in Idx("quit") : q < x /\ events[q].res = "ok"
    /\ \A p \in Idx("post") :
          \E x \in Idx("exchange") : x < p /\ events[x].res = "ok"
    /\ ( \/ tryExc # "none"
         \/ \E i \in Idx("launch") \cup Idx("quit") \cup Idx("makedirs") :
               events[i].res = "raise" )
          => Idx("exchange") = {} /\ Idx("post") = {}
    /\ (\E x \in Idx("exchange") : events[x].res = "raise")
          => Idx("post") = {} /\ Done

\* C5 witness: a run in which all three stages ran and succeeded
C5_Witness ==
    /\ Done /\ stage = "finished"
    /\ Cardinality(Idx("launch")) = 1
    /\ Cardinality(Idx("exchange")) = 1
    /\ Cardinality(SuccessPosts) = 1

\* C6 as stated: every run that passed validation has posted its outcome when
\* it ends: the success payload if it succeeded, the error payload if it failed.
C6_OutcomeAlwaysPosted ==
    (Done /\ ~ConfigMissing) =>
        IF exc = "none" THEN SuccessPosts # {} ELSE ErrorPosts # {}

\* C6 amended: a run that succeeded has posted the success payload and got
\* 200; the error payload is posted exactly when the success POST raised a
\* transport error; a run that failed in login or exchange has posted nothing.
C6_OutcomePostedOnlyFromCallbackStage ==
    (Done /\ ~ConfigMissing) =>
        /\ exc = "none" => \E p \in SuccessPosts : events[p].res = "200"
        /\ ErrorPosts # {} <=> \E p \in SuccessPosts : events[p].res = "raise"
        /\ stage \in {"login", "exchange"} => Idx("post") = {}

\* C6 witness: the exchange failed and the run ended without any POST
C6_Witness ==
    /\ Done
    /\ stage = "exchange"
    /\ exc = "SessionExchangeError"
    /\ Idx("post") = {}

\* C7 as stated: whenever the URL has the marker followed by T and then & or
\* the end, at any place of the URL, the token returned is T.
C7_TokenAtEveryMarker ==
    TokenExtracted =>
        \A i \in MarkerOffsets(current_url) :
            request_token = TokenAt(current_url, i)

\* C7 amended: for the first occurrence of the marker, followed by a T that
\* holds no further marker and then & or the end, the token returned is T,
\* whatever precedes the marker and whatever follows the delimiter.
C7_TokenAtFirstMarker ==
    TokenExtracted =>
        \A i \in MarkerOffsets(current_url) :
            ( /\ \A j \in MarkerOffsets(current_url) : i <= j
              /\ ~Contains(TokenAt(current_url, i), TokenMarker) )
            => request_token = TokenAt(current_url, i)

\* C7 witness: a URL with text before the marker, a non-empty token and
\* trailing parameters after the delimiter
C7_Witness ==
    /\ TokenExtracted
    /\ request_token # <<>>
    /\ \E i \in MarkerOffsets(current_url) :
          /\ i > 0
          /\ \A j \in MarkerOffsets(current_url) : i <= j
          /\ i + Len(TokenMarker) + Len(request_token) + 1 < Len(current_url)
          /\ current_url[i + Len(TokenMarker) + Len(request_token) + 1] = "&"

\* C8 as stated: no credential reaches any sink but the login form.
C8_CredentialsOnlyToForm ==
    \A i \in 1..Len(events) :
        events[i].op # "send_keys" => events[i].data \cap Credentials = {}

\* C8 amended: password and one-time-password code are passed to nothing but
\* the login form; the user id is passed to the login form and to the
\* "User ID:" line on standard output, and to nothing else.
C8_SecretsOnlyToFormUserIdPrinted ==
    \A i \in 1..Len(events) :
        /\ events[i].op # "send_keys" =>
              /\ events[i].data \cap {"password", "totp_code"} = {}
              /\ "user_id" \in events[i].data =>
                    events[i].op = "print" /\ events[i].arg = "User ID:"
        /\ events[i].op = "send_keys" =>
              events[i].data = ( CASE events[i].arg = "userid"   -> {"user_id"}
                                   [] events[i].arg = "password" -> {"password"}
                                   [] events[i].arg = "totp"     -> {"totp_code"}
                                   [] OTHER -> {} )

\* C8 witness: all three credentials went into the form and the run ended
C8_Witness ==
    /\ Done
    /\ \A f \in {"userid", "password", "totp"} :
          \E i \in IdxArg("send_keys", f) : events[i].res = "ok"
    /\ \E i \in Idx("print") : "user_id" \in events[i].data

\* C9 as stated: when the run ends, a screenshot has been written exactly if
\* the login stage failed, and it was taken with the session open and before
\* driver.quit.
C9_ScreenshotIffLoginFailed ==
    (Done /\ ~ConfigMissing) =>
        /\ (stage = "login") <=> (\E s \in Idx("screenshot") : events[s].res = "written")
        /\ \A s \in Idx("screenshot") :
              events[s].arg = "session_open" /\ \A q \in Idx("quit") : s < q

\* C9 amended: the screenshot is attempted exactly when a step inside the try
\* block (navigation up to token extraction) raised and the screenshots
\* directory could be created; it is taken once, with the session open,
\* before driver.quit and before the error leaves get_request_token.  A
\* failed browser launch, a failing driver.quit and a run in which login
\* returned a token take none.
C9_ScreenshotIffTryBlockFailed ==
    /\ Cardinality(Idx("screenshot")) <= 1
    /\ \A s \in Idx("screenshot") :
          /\ events[s].arg = "session_open"
          /\ tryExc # "none"
          /\ \A q \in Idx("quit") : s < q
          /\ \E m \in Idx("makedirs") : m < s /\ events[m].res = "ok"
    /\ tryExc = "none" => Idx("screenshot") = {}
    /\ stage \in {"exchange", "callback", "finished"} => Idx("screenshot") = {}
    /\ (tryExc # "none" /\ pc \in {"finally", "done"}) =>
          \/ \E m \in Idx("makedirs") : events[m].res = "raise"
          \/ Idx("screenshot") # {}
    /\ (\E l \in Idx("launch") : events[l].res = "raise") =>
          Done /\ Idx("screenshot") = {}

\* C9 witness: the redirect carried no token, the screenshot was written and
\* the run ended in the login stage
C9_Witness ==
    /\ Done /\ stage = "login"
    /\ tryExc = "TokenNotFound"
    /\ \E s \in Idx("screenshot") : events[s].res = "written"

\* C10: when the one-time-password field does not appear, nothing is raised
\* and no screenshot is taken for it, the next step is the redirect wait, and
\* a later failure can only come from the redirect; the code is typed and
\* submitted only after the field was found.
C10_TotpOptional ==
    /\ \A i \in IdxArg("wait", "totp") :
          events[i].res = "timeout" =>
              /\ i + 1 <= Len(events)
              /\ events[i + 1].op = "print"
              /\ i + 2 <= Len(events) => events[i + 2].op = "wait_url"
              /\ i + 2 > Len(events) =>
                    pc = "redirect_wait" /\ exc = "none" /\ tryExc = "none"
              /\ IdxArg("send_keys", "totp") = {} /\ IdxArg("click", "totp") = {}
              /\ tryExc # "none" =>
                    \/ tryExc = "TokenNotFound"
                    \/ \E w \in Idx("wait_url") : events[w].res = "timeout"
    /\ \A j \in IdxArg("send_keys", "totp") \cup IdxArg("click", "totp") :
          \E i \in IdxArg("wait", "totp") : i < j /\ events[i].res = "ok"

\* C10 witness: the field never appeared and the whole run still succeeded
C10_Witness ==
    /\ Done /\ stage = "finished" /\ exc = "none"
    /\ \E i \in IdxArg("wait", "totp") : events[i].res = "timeout"

====
